---- MODULE Spec2Model ----
(***************************************************************************)
(* Schema-version synchronisation through etcd (ddl/syncer.go).            *)
(*                                                                         *)
(* Every node owns one schemaVersionSyncer.  A node runs one operation at  *)
(* a time; an operation is a sequence of steps, one per store call, sleep  *)
(* or context check, and the steps of different nodes interleave.  The     *)
(* store is linearizable: each store call takes effect atomically, or not  *)
(* at all, at the step that issues it.  A store call that returns an error *)
(* may nevertheless have been applied (a lost reply or a timeout).         *)
(***************************************************************************)
EXTENDS Integers, Sequences, FiniteSets, TLC

\* ---------------------------------------------------------------- bounds
NumNodes == 3       \* nodes 1..NumNodes; node ids order the self keys
VerStep  == 12      \* version arguments are multiples of VerStep
MaxFail  == 4       \* cap on consecutive failed writes of one putKV call
MaxCalls == 4       \* cap on the number of writing operations called
MaxFairCalls == 2   \* the same cap under the fair specification of the barrier
MaxCancelCalls == 1 \* the same cap under the specification of cancellation
MaxScanCalls == 2   \* the same cap under the specification of the scans
MaxWriteCalls == 2  \* the same cap under the specification of the writes
MaxInitCalls == 3   \* the same cap under the specification of Init
MaxMonoCalls == 3   \* the same cap under the specification of the reads
MaxSetCalls == 4    \* the same cap under the specification of the set
MaxBudget == 2      \* direct calls of putKV have retryCnt in 0..MaxBudget

\* ------------------------------------------------------- program constants
putKeyNoRetry        == 1
keyOpDefaultRetryCnt == 3
\* math.MaxInt64 in the source; the largest integer the checker represents
\* stands for it.  The attempt counter stays below MaxFail, far from either.
putKeyRetryUnlimited == 2147483647

Nodes    == 1..NumNodes
Owner    == 1
\* The version arguments of the self-version operations and of the waits.
Versions == {0, VerStep}

\* The version arguments of the owner's global-version writes.
OwnerVersions == {0, VerStep, 2 * VerStep}

\* ----------------------------------------------------------------- strings
\* A string is a sequence of one-character strings.
Digits == <<"0", "1", "2", "3", "4", "5", "6", "7", "8", "9">>

DigitChars == {Digits[k] : k \in 1..10}

DigitVal(c) == (CHOOSE k \in 1..10 : Digits[k] = c) - 1

RECURSIVE FormatUint(_)
FormatUint(n) ==
    IF n < 10 THEN <<Digits[n + 1]>>
    ELSE Append(FormatUint(n \div 10), Digits[(n % 10) + 1])

\* strconv.FormatInt(version, 10)
FormatInt(n) == IF n < 0 THEN <<"-">> \o FormatUint(0 - n) ELSE FormatUint(n)

RECURSIVE ParseUint(_, _)
ParseUint(s, acc) ==
    IF s = <<>> THEN acc
    ELSE ParseUint(Tail(s), 10 * acc + DigitVal(Head(s)))

\* strconv.Atoi: an optional sign, then one or more decimal digits.
Atoi(s) ==
    LET signed == Len(s) > 0 /\ Head(s) \in {"+", "-"}
        body   == IF signed THEN Tail(s) ELSE s
    IN  IF body = <<>> \/ \E k \in 1..Len(body) : body[k] \notin DigitChars
        THEN [ok |-> FALSE, val |-> 0]
        ELSE [ok |-> TRUE,
              val |-> IF signed /\ Head(s) = "-"
                      THEN 0 - ParseUint(body, 0) ELSE ParseUint(body, 0)]

\* -------------------------------------------------------------------- keys
\* A key is the sequence of its path segments.
ddlAllSchemaVersions   == <<"tidb", "ddl", "all_schema_versions">>
ddlGlobalSchemaVersion == <<"tidb", "ddl", "global_schema_version">>
\* Variant: an initial version above the versions the owner publishes.
initialVersion_NonMinimal == <<"9", "9">>

initialVersion == <<"0">>

\* The id passed to NewSchemaSyncer for node n: its number as one segment.
NodeId(n) == Digits[n + 1]

\* NewSchemaSyncer: fmt.Sprintf("%s/%s", ddlAllSchemaVersions, id)
selfSchemaVerPath(n) == Append(ddlAllSchemaVersions, NodeId(n))

Keys == {ddlGlobalSchemaVersion} \cup {selfSchemaVerPath(n) : n \in Nodes}

HasPrefix(k, p) == Len(k) >= Len(p) /\ SubSeq(k, 1, Len(p)) = p

\* The value of a key that is not in the store: not a string.
Absent == <<"absent">>
NoKey  == <<>>
NoVal  == <<>>

\* ------------------------------------------------------------------ errors
Nil              == "nil"
Canceled         == "context canceled"
DeadlineExceeded == "context deadline exceeded"
ErrUnavailable   == "etcdserver: unavailable"
NoRet            == "none"

Live == "live"

\* ctx.Err() of a context in state c
CtxErr(c) == c

\* Errors of a store call issued under a live context: the server is
\* unavailable, or the per-attempt child context timed out.
StoreErrs == {ErrUnavailable, DeadlineExceeded}

\* isContextFinished without the DeadlineExceeded arm.
isContextFinished_CanceledOnly(e) == e = Canceled

isContextFinished(e) == e = Canceled \/ e = DeadlineExceeded


\* ------------------------------------------------------------------- state
VARIABLES
    kv,          \* the store: key -> value, or Absent
    globalVerCh, \* node -> TRUE once Init has opened the watch
    pc,          \* node -> position of the running operation, or "idle"
    ctx,         \* node -> state of the context of the running operation
    i,           \* node -> loop counter of putKV / RemoveSelfVersionPath
    retryCnt,    \* node -> retryCnt argument of the running putKV
    key,         \* node -> key argument of the running putKV
    val,         \* node -> val argument of the running putKV
    err,         \* node -> err of putKV / RemoveSelfVersionPath
    latestVer,   \* node -> latestVer argument of the running wait
    updatedMap,  \* node -> updatedMap of the running wait
    op,          \* node -> name of the running operation
    arg,         \* node -> version argument of the running operation, or -1
    writes,      \* node -> store writes/deletes issued by the running operation
    lastWrite,   \* node -> outcome of the most recent of those
    blocked,     \* node -> key at which the last unconverged round stopped
    last,        \* the return made by the step just taken, or NoLast
    observed,    \* value of GlobalVersion at the most recent read
    pristine,    \* TRUE while only Init has ever been called
    inited,      \* while pristine: the nodes whose Init has returned nil
    calls,       \* number of writing operations called so far
    ownerVer     \* largest version passed to OwnerUpdateGlobalVersion, or -1

locals == <<pc, ctx, i, retryCnt, key, val, err, latestVer, updatedMap>>
counts == <<op, arg, writes, lastWrite, blocked>>
env    == <<observed, pristine, calls, ownerVer>>
vars   == <<kv, globalVerCh, locals, counts, env, inited, last>>

\* No operation returned in the step just taken.
NoLast == [node |-> 0, op |-> "none", arg |-> -1, ctx |-> Live,
           ret |-> NoRet, writes |-> 0,
           lastWrite |-> NoRet, latestVer |-> 0, updatedMap |-> {},
           blocked |-> NoKey]

Init ==
    /\ kv = [k \in Keys |-> Absent]
    /\ globalVerCh = [n \in Nodes |-> FALSE]
    /\ pc = [n \in Nodes |-> "idle"]
    /\ ctx = [n \in Nodes |-> Live]
    /\ i = [n \in Nodes |-> 0]
    /\ retryCnt = [n \in Nodes |-> 0]
    /\ key = [n \in Nodes |-> NoKey]
    /\ val = [n \in Nodes |-> NoVal]
    /\ err = [n \in Nodes |-> Nil]
    /\ latestVer = [n \in Nodes |-> 0]
    /\ updatedMap = [n \in Nodes |-> {}]
    /\ op = [n \in Nodes |-> "none"]
    /\ arg = [n \in Nodes |-> -1]
    /\ writes = [n \in Nodes |-> 0]
    /\ lastWrite = [n \in Nodes |-> NoRet]
    /\ blocked = [n \in Nodes |-> NoKey]
    /\ last = NoLast
    /\ observed = Absent
    /\ pristine = TRUE
    /\ inited = {}
    /\ calls = 0
    /\ ownerVer = -1

\* ------------------------------------------------------- call and return
\* An operation starts on an idle node, under a live context that may be
\* cancelled, or reach its deadline, at any later step.
Enter(n, name, version) ==
    /\ pc[n] = "idle"
    /\ op' = [op EXCEPT ![n] = name]
    /\ arg' = [arg EXCEPT ![n] = version]
    /\ pristine' = (pristine /\ name = "Init")
    /\ inited' = IF pristine' THEN inited ELSE {}
    /\ calls' = IF name = "OwnerCheckAllVersions" THEN calls ELSE calls + 1
    /\ last' = NoLast
    /\ UNCHANGED <<kv, globalVerCh, ctx, updatedMap, writes, lastWrite,
                   blocked, observed>>

\* The operation returns e after w store writes, the last with outcome lw,
\* and with um as the final updatedMap of a wait.  Its locals go out of
\* scope.
Leave(n, e, w, lw, um) ==
    /\ pc' = [pc EXCEPT ![n] = "idle"]
    /\ ctx' = [ctx EXCEPT ![n] = Live]
    /\ i' = [i EXCEPT ![n] = 0]
    /\ retryCnt' = [retryCnt EXCEPT ![n] = 0]
    /\ key' = [key EXCEPT ![n] = NoKey]
    /\ val' = [val EXCEPT ![n] = NoVal]
    /\ err' = [err EXCEPT ![n] = Nil]
    /\ latestVer' = [latestVer EXCEPT ![n] = 0]
    /\ updatedMap' = [updatedMap EXCEPT ![n] = {}]
    /\ op' = [op EXCEPT ![n] = "none"]
    /\ arg' = [arg EXCEPT ![n] = -1]
    /\ writes' = [writes EXCEPT ![n] = 0]
    /\ lastWrite' = [lastWrite EXCEPT ![n] = NoRet]
    /\ blocked' = [blocked EXCEPT ![n] = NoKey]
    /\ inited' = IF pristine /\ op[n] = "Init" /\ e = Nil
                 THEN inited \cup {n} ELSE inited
    /\ last' = [node |-> n, op |-> op[n], arg |-> arg[n], ctx |-> ctx[n],
                ret |-> e, writes |-> w,
                lastWrite |-> lw, latestVer |-> latestVer[n],
                updatedMap |-> um, blocked |-> blocked[n]]

\* Return without a store write in this step.
Return(n, e) == Leave(n, e, writes[n], lastWrite[n], updatedMap[n])

\* The operation goes on at position p.
Goto(n, p) ==
    /\ pc' = [pc EXCEPT ![n] = p]
    /\ last' = NoLast
    /\ UNCHANGED inited

\* One store write or delete was issued and had outcome e.
Issued(n, e) ==
    /\ writes' = [writes EXCEPT ![n] = @ + 1]
    /\ lastWrite' = [lastWrite EXCEPT ![n] = e]

\* ------------------------------------------------------------------ putKV
\* putKV(ctx, cnt, k, v): entry, i := 0 and the first test of i < retryCnt.
putKVEnter(n, cnt, k, v) ==
    IF 0 < cnt
    THEN /\ pc' = [pc EXCEPT ![n] = "putTop"]
         /\ i' = [i EXCEPT ![n] = 0]
         /\ retryCnt' = [retryCnt EXCEPT ![n] = cnt]
         /\ key' = [key EXCEPT ![n] = k]
         /\ val' = [val EXCEPT ![n] = v]
         /\ err' = [err EXCEPT ![n] = Nil]
    ELSE /\ pc' = [pc EXCEPT ![n] = "retNil"]
         /\ UNCHANGED <<i, retryCnt, key, val, err>>

\* putKV was entered with retryCnt <= 0: return errors.Trace(nil).
PutNone(n) ==
    /\ pc[n] = "retNil"
    /\ Return(n, Nil)
    /\ UNCHANGED <<kv, globalVerCh, env>>

\* Variant: the loop of putKV does not look at ctx.Done().
PutTop_NoCtxCheck(n) ==
    /\ pc[n] = "putTop"
    /\ Goto(n, "put")
    /\ UNCHANGED <<ctx, i, retryCnt, key, val, err, latestVer,
                   updatedMap, counts>>
    /\ UNCHANGED <<kv, globalVerCh, env>>

\* select { case <-ctx.Done(): return ctx.Err(); default: }
PutTop(n) ==
    /\ pc[n] = "putTop"
    /\ IF ctx[n] # Live
       THEN Return(n, CtxErr(ctx[n]))
       ELSE /\ Goto(n, "put")
            /\ UNCHANGED <<ctx, i, retryCnt, key, val, err, latestVer,
                           updatedMap, counts>>
    /\ UNCHANGED <<kv, globalVerCh, env>>

\* etcdCli.Put succeeds: err == nil, return nil.
PutOk(n) ==
    /\ pc[n] = "put"
    /\ ctx[n] = Live
    /\ kv' = [kv EXCEPT ![key[n]] = val[n]]
    /\ Leave(n, Nil, writes[n] + 1, Nil, updatedMap[n])
    /\ UNCHANGED <<globalVerCh, env>>

\* etcdCli.Put returns error e; the write was applied or not.  Under a done
\* context the call fails with the context's error and writes nothing.
PutFail(n, e, applied) ==
    /\ pc[n] = "put"
    /\ IF ctx[n] = Live
       THEN e \in StoreErrs /\ i[n] < MaxFail
       ELSE e = CtxErr(ctx[n]) /\ ~applied
    /\ kv' = IF applied THEN [kv EXCEPT ![key[n]] = val[n]] ELSE kv
    /\ err' = [err EXCEPT ![n] = e]
    /\ Goto(n, "putSleep")
    /\ Issued(n, e)
    /\ UNCHANGED <<globalVerCh, ctx, i, retryCnt, key, val, latestVer,
                   updatedMap, op, arg, blocked, env>>

\* Variant: the loop test is i <= retryCnt.
PutSleep_OneMore(n) ==
    /\ pc[n] = "putSleep"
    /\ IF i[n] + 1 <= retryCnt[n]
       THEN /\ i' = [i EXCEPT ![n] = @ + 1]
            /\ Goto(n, "putTop")
            /\ UNCHANGED <<ctx, retryCnt, key, val, err, latestVer,
                           updatedMap, counts>>
       ELSE Return(n, err[n])
    /\ UNCHANGED <<kv, globalVerCh, env>>

\* time.Sleep(putKeyRetryInterval); i++; test i < retryCnt; return err.
PutSleep(n) ==
    /\ pc[n] = "putSleep"
    /\ IF i[n] + 1 < retryCnt[n]
       THEN /\ i' = [i EXCEPT ![n] = @ + 1]
            /\ Goto(n, "putTop")
            /\ UNCHANGED <<ctx, retryCnt, key, val, err, latestVer,
                           updatedMap, counts>>
       ELSE Return(n, err[n])
    /\ UNCHANGED <<kv, globalVerCh, env>>

\* -------------------------------------------------------------------- Init
InitCall(n) ==
    /\ Enter(n, "Init", -1)
    /\ pc' = [pc EXCEPT ![n] = "initTxn"]
    /\ UNCHANGED <<i, retryCnt, key, val, err, latestVer, ownerVer>>

\* Variant: the transaction puts the initial version unconditionally.
TxnCreateIfAbsent_Overwrite(store) ==
    [store EXCEPT ![ddlGlobalSchemaVersion] = initialVersion]

\* Txn.If(CreateRevision(global) = 0).Then(OpPut(global, "0")).Commit()
TxnCreateIfAbsent(store) ==
    IF store[ddlGlobalSchemaVersion] = Absent
    THEN [store EXCEPT ![ddlGlobalSchemaVersion] = initialVersion]
    ELSE store

\* Variant: Init registers the node under the global key.
InitTxnOk_PutsGlobalKey(n) ==
    /\ pc[n] = "initTxn"
    /\ ctx[n] = Live
    /\ kv' = TxnCreateIfAbsent(kv)
    /\ globalVerCh' = [globalVerCh EXCEPT ![n] = TRUE]
    /\ putKVEnter(n, keyOpDefaultRetryCnt, ddlGlobalSchemaVersion,
                  initialVersion)
    /\ last' = NoLast
    /\ UNCHANGED inited
    /\ UNCHANGED <<ctx, latestVer, updatedMap, counts, env>>

\* Variant: Init writes the record of the node with putKeyNoRetry.
InitTxnOk_NoRetry(n) ==
    /\ pc[n] = "initTxn"
    /\ ctx[n] = Live
    /\ kv' = TxnCreateIfAbsent(kv)
    /\ globalVerCh' = [globalVerCh EXCEPT ![n] = TRUE]
    /\ putKVEnter(n, putKeyNoRetry, selfSchemaVerPath(n), initialVersion)
    /\ last' = NoLast
    /\ UNCHANGED inited
    /\ UNCHANGED <<ctx, latestVer, updatedMap, counts, env>>

\* The transaction commits; Init opens the watch and enters putKV.
InitTxnOk(n) ==
    /\ pc[n] = "initTxn"
    /\ ctx[n] = Live
    /\ kv' = TxnCreateIfAbsent(kv)
    /\ globalVerCh' = [globalVerCh EXCEPT ![n] = TRUE]
    /\ putKVEnter(n, keyOpDefaultRetryCnt, selfSchemaVerPath(n), initialVersion)
    /\ last' = NoLast
    /\ UNCHANGED inited
    /\ UNCHANGED <<ctx, latestVer, updatedMap, counts, env>>

\* The transaction returns error e (applied or not): Init returns it.
InitTxnFail(n, e, applied) ==
    /\ pc[n] = "initTxn"
    /\ IF ctx[n] = Live
       THEN e = ErrUnavailable
       ELSE e = CtxErr(ctx[n]) /\ ~applied
    /\ kv' = IF applied THEN TxnCreateIfAbsent(kv) ELSE kv
    /\ Return(n, e)
    /\ UNCHANGED <<globalVerCh, env>>

\* ---------------------------------------------------------- GlobalVersionCh
\* return s.globalVerCh: the call reads the field and touches nothing else.
GlobalVersionCh(n) ==
    /\ pc[n] = "idle"
    /\ last' = [NoLast EXCEPT !.node = n, !.op = "GlobalVersionCh"]
    /\ UNCHANGED <<kv, globalVerCh, locals, counts, env, inited>>

\* ------------------------------------------------------- UpdateSelfVersion
\* Variant: the write is retried keyOpDefaultRetryCnt times.
UpdateSelfVersion_Retrying(n, version) ==
    /\ Enter(n, "UpdateSelfVersion", version)
    /\ putKVEnter(n, keyOpDefaultRetryCnt, selfSchemaVerPath(n),
                  FormatInt(version))
    /\ UNCHANGED <<latestVer, ownerVer>>

UpdateSelfVersion(n, version) ==
    /\ Enter(n, "UpdateSelfVersion", version)
    /\ putKVEnter(n, putKeyNoRetry, selfSchemaVerPath(n), FormatInt(version))
    /\ UNCHANGED <<latestVer, ownerVer>>

\* ------------------------------------------------ OwnerUpdateGlobalVersion
\* Variant: the write is retried keyOpDefaultRetryCnt times only.
OwnerUpdateGlobalVersion_Bounded(n, version) ==
    /\ Enter(n, "OwnerUpdateGlobalVersion", version)
    /\ putKVEnter(n, keyOpDefaultRetryCnt, ddlGlobalSchemaVersion,
                  FormatInt(version))
    /\ ownerVer' = IF version > ownerVer THEN version ELSE ownerVer
    /\ UNCHANGED latestVer

OwnerUpdateGlobalVersion(n, version) ==
    /\ Enter(n, "OwnerUpdateGlobalVersion", version)
    /\ putKVEnter(n, putKeyRetryUnlimited, ddlGlobalSchemaVersion,
                  FormatInt(version))
    /\ ownerVer' = IF version > ownerVer THEN version ELSE ownerVer
    /\ UNCHANGED latestVer

\* A direct call of putKV(ctx, cnt, selfSchemaVerPath, FormatInt(version)),
\* as code of the package can make it.
putKV(n, cnt, version) ==
    /\ Enter(n, "putKV", version)
    /\ putKVEnter(n, cnt, selfSchemaVerPath(n), FormatInt(version))
    /\ UNCHANGED <<latestVer, ownerVer>>

\* --------------------------------------------------- RemoveSelfVersionPath
\* Entry, i := 0 and the first test of i < keyOpDefaultRetryCnt.  The
\* operation runs under goctx.Background(), which is never done.
RemoveSelfVersionPath(n) ==
    /\ Enter(n, "RemoveSelfVersionPath", -1)
    /\ pc' = [pc EXCEPT ![n] = "delete"]
    /\ i' = [i EXCEPT ![n] = 0]
    /\ err' = [err EXCEPT ![n] = Nil]
    /\ UNCHANGED <<retryCnt, key, val, latestVer, ownerVer>>

\* Variant: the delete is issued with clientv3.WithPrefix() on the directory
\* of the records.
DeleteOk_WithPrefix(n) ==
    /\ pc[n] = "delete"
    /\ kv' = [k \in Keys |->
                 IF HasPrefix(k, ddlAllSchemaVersions) THEN Absent ELSE kv[k]]
    /\ Leave(n, Nil, writes[n] + 1, Nil, updatedMap[n])
    /\ UNCHANGED <<globalVerCh, env>>

\* etcdCli.Delete succeeds (also when the key is already absent).
DeleteOk(n) ==
    /\ pc[n] = "delete"
    /\ kv' = [kv EXCEPT ![selfSchemaVerPath(n)] = Absent]
    /\ Leave(n, Nil, writes[n] + 1, Nil, updatedMap[n])
    /\ UNCHANGED <<globalVerCh, env>>

\* Variant: the first failed delete ends the operation.
DeleteFail_NoRetry(n, e, applied) ==
    /\ pc[n] = "delete"
    /\ e \in StoreErrs
    /\ kv' = IF applied THEN [kv EXCEPT ![selfSchemaVerPath(n)] = Absent]
             ELSE kv
    /\ Leave(n, e, writes[n] + 1, e, updatedMap[n])
    /\ UNCHANGED <<globalVerCh, env>>

\* etcdCli.Delete returns error e; i++; test i < keyOpDefaultRetryCnt.
DeleteFail(n, e, applied) ==
    /\ pc[n] = "delete"
    /\ e \in StoreErrs
    /\ kv' = IF applied THEN [kv EXCEPT ![selfSchemaVerPath(n)] = Absent]
             ELSE kv
    /\ IF i[n] + 1 < keyOpDefaultRetryCnt
       THEN /\ i' = [i EXCEPT ![n] = @ + 1]
            /\ err' = [err EXCEPT ![n] = e]
            /\ Issued(n, e)
            /\ last' = NoLast
            /\ UNCHANGED inited
            /\ UNCHANGED <<pc, ctx, retryCnt, key, val, latestVer,
                           updatedMap, op, arg, blocked>>
       ELSE Leave(n, e, writes[n] + 1, e, updatedMap[n])
    /\ UNCHANGED <<globalVerCh, env>>

\* ---------------------------------------------------- OwnerCheckAllVersions
\* etcdCli.Get(ctx, ddlAllSchemaVersions, WithPrefix()): the present keys
\* under the prefix with their values, in ascending key order.
RECURSIVE PrefixScan(_, _)
PrefixScan(store, n) ==
    IF n > NumNodes THEN <<>>
    ELSE LET k == selfSchemaVerPath(n)
         IN  IF HasPrefix(k, ddlAllSchemaVersions) /\ store[k] # Absent
             THEN <<[Key |-> k, Value |-> store[k]]>> \o PrefixScan(store, n + 1)
             ELSE PrefixScan(store, n + 1)

\* Variant: the scan leaves out the record of the owner.
Get_ExceptOwner(store) ==
    PrefixScan([store EXCEPT ![selfSchemaVerPath(Owner)] = Absent], 1)

Get(store) ==
    IF HasPrefix(ddlGlobalSchemaVersion, ddlAllSchemaVersions)
           /\ store[ddlGlobalSchemaVersion] # Absent
    THEN <<[Key |-> ddlGlobalSchemaVersion,
            Value |-> store[ddlGlobalSchemaVersion]]>> \o PrefixScan(store, 1)
    ELSE PrefixScan(store, 1)

\* The loop over resp.Kvs without the look-up in updatedMap: every record is
\* compared again in every round.
RECURSIVE CheckKvs_NoMemo(_, _, _, _)
CheckKvs_NoMemo(kvs, idx, um, latest) ==
    IF idx > Len(kvs) THEN [succ |-> TRUE, updatedMap |-> um, at |-> NoKey]
    ELSE LET r == Atoi(kvs[idx].Value)
         IN  IF ~r.ok \/ r.val # latest
             THEN [succ |-> FALSE, updatedMap |-> um, at |-> kvs[idx].Key]
             ELSE CheckKvs_NoMemo(kvs, idx + 1, um \cup {kvs[idx].Key}, latest)

\* Variant: a value that does not parse is skipped with continue.
RECURSIVE CheckKvs_SkipsUnparsable(_, _, _, _)
CheckKvs_SkipsUnparsable(kvs, idx, um, latest) ==
    IF idx > Len(kvs) THEN [succ |-> TRUE, updatedMap |-> um, at |-> NoKey]
    ELSE IF kvs[idx].Key \in um
    THEN CheckKvs_SkipsUnparsable(kvs, idx + 1, um, latest)
    ELSE LET r == Atoi(kvs[idx].Value)
         IN  IF ~r.ok
             THEN CheckKvs_SkipsUnparsable(kvs, idx + 1, um, latest)
             ELSE IF r.val # latest
             THEN [succ |-> FALSE, updatedMap |-> um, at |-> kvs[idx].Key]
             ELSE CheckKvs_SkipsUnparsable(kvs, idx + 1,
                                           um \cup {kvs[idx].Key}, latest)

\* The loop over resp.Kvs from position idx on: succ, the grown updatedMap,
\* and the key at which the loop broke off.
\* Variant: a record is entered in updatedMap before it is compared.
RECURSIVE CheckKvs_AddsBeforeCompare(_, _, _, _)
CheckKvs_AddsBeforeCompare(kvs, idx, um, latest) ==
    IF idx > Len(kvs) THEN [succ |-> TRUE, updatedMap |-> um, at |-> NoKey]
    ELSE IF kvs[idx].Key \in um
    THEN CheckKvs_AddsBeforeCompare(kvs, idx + 1, um, latest)
    ELSE LET r == Atoi(kvs[idx].Value)
         IN  IF ~r.ok \/ r.val # latest
             THEN [succ |-> FALSE, updatedMap |-> um \cup {kvs[idx].Key},
                   at |-> kvs[idx].Key]
             ELSE CheckKvs_AddsBeforeCompare(kvs, idx + 1,
                                             um \cup {kvs[idx].Key}, latest)

RECURSIVE CheckKvs(_, _, _, _)
CheckKvs(kvs, idx, um, latest) ==
    IF idx > Len(kvs) THEN [succ |-> TRUE, updatedMap |-> um, at |-> NoKey]
    ELSE IF kvs[idx].Key \in um THEN CheckKvs(kvs, idx + 1, um, latest)
    ELSE LET r == Atoi(kvs[idx].Value)
         IN  IF ~r.ok
             THEN [succ |-> FALSE, updatedMap |-> um, at |-> kvs[idx].Key]
             ELSE IF r.val # latest
             THEN [succ |-> FALSE, updatedMap |-> um, at |-> kvs[idx].Key]
             ELSE CheckKvs(kvs, idx + 1, um \cup {kvs[idx].Key}, latest)

\* Entry: latestVer is bound; time.Sleep(checkVersFirstWaitTime) is pending.
OwnerCheckAllVersions(n, version) ==
    /\ Enter(n, "OwnerCheckAllVersions", version)
    /\ pc' = [pc EXCEPT ![n] = "chkFirstWait"]
    /\ latestVer' = [latestVer EXCEPT ![n] = version]
    /\ UNCHANGED <<i, retryCnt, key, val, err, ownerVer>>

\* time.Sleep(checkVersFirstWaitTime); updatedMap := make(map)
ChkFirstWait(n) ==
    /\ pc[n] = "chkFirstWait"
    /\ Goto(n, "chkTop")
    /\ updatedMap' = [updatedMap EXCEPT ![n] = {}]
    /\ UNCHANGED <<kv, globalVerCh, ctx, i, retryCnt, key, val, err,
                   latestVer, counts, env>>

\* select { case <-ctx.Done(): return ctx.Err(); default: }
ChkTop(n) ==
    /\ pc[n] = "chkTop"
    /\ IF ctx[n] # Live
       THEN Return(n, CtxErr(ctx[n]))
       ELSE /\ Goto(n, "chkGet")
            /\ UNCHANGED <<ctx, i, retryCnt, key, val, err, latestVer,
                           updatedMap, counts>>
    /\ UNCHANGED <<kv, globalVerCh, env>>

\* The scan fails and the wait returns the error, whatever it is.
ChkGetFail_ReturnsAnyError(n, e) ==
    /\ pc[n] = "chkGet"
    /\ IF ctx[n] = Live THEN e = ErrUnavailable ELSE e = CtxErr(ctx[n])
    /\ Return(n, e)
    /\ UNCHANGED <<kv, globalVerCh, env>>

\* Variant: after a scan error that is not the context's the loop falls
\* through to the polling sleep.
ChkGetFail_ThenSleeps(n, e) ==
    /\ pc[n] = "chkGet"
    /\ IF ctx[n] = Live THEN e = ErrUnavailable ELSE e = CtxErr(ctx[n])
    /\ IF isContextFinished(e)
       THEN Return(n, e)
       ELSE /\ Goto(n, "chkSleep")
            /\ UNCHANGED <<ctx, i, retryCnt, key, val, err, latestVer,
                           updatedMap, counts>>
    /\ UNCHANGED <<kv, globalVerCh, env>>

\* The scan fails with e.  Under a done context e is the context's error;
\* isContextFinished(e) returns it, any other error continues the loop.
ChkGetFail(n, e) ==
    /\ pc[n] = "chkGet"
    /\ IF ctx[n] = Live THEN e = ErrUnavailable ELSE e = CtxErr(ctx[n])
    /\ IF isContextFinished(e)
       THEN Return(n, e)
       ELSE /\ Goto(n, "chkTop")
            /\ UNCHANGED <<ctx, i, retryCnt, key, val, err, latestVer,
                           updatedMap, counts>>
    /\ UNCHANGED <<kv, globalVerCh, env>>

\* The scan succeeds, with succ declared outside the for loop: once a round
\* has failed no later round succeeds.
ChkGetOk_StickySucc(n) ==
    /\ pc[n] = "chkGet"
    /\ ctx[n] = Live
    /\ LET r == CheckKvs(Get(kv), 1, updatedMap[n], latestVer[n])
       IN  IF r.succ /\ blocked[n] = NoKey
           THEN Leave(n, Nil, writes[n], lastWrite[n], r.updatedMap)
           ELSE /\ Goto(n, "chkSleep")
                /\ updatedMap' = [updatedMap EXCEPT ![n] = r.updatedMap]
                /\ blocked' = [blocked EXCEPT ![n] =
                                  IF r.succ THEN @ ELSE r.at]
                /\ UNCHANGED <<ctx, i, retryCnt, key, val, err, latestVer,
                               op, arg, writes, lastWrite>>
    /\ UNCHANGED <<kv, globalVerCh, env>>

\* The scan succeeds: one round over resp.Kvs, then return nil or pend
\* time.Sleep(checkVersInterval).
\* Variant: a scan that returns no record does not end the wait.
ChkGetOk_RequiresRecords(n) ==
    /\ pc[n] = "chkGet"
    /\ ctx[n] = Live
    /\ LET r == CheckKvs(Get(kv), 1, updatedMap[n], latestVer[n])
       IN  IF r.succ /\ Len(Get(kv)) > 0
           THEN Leave(n, Nil, writes[n], lastWrite[n], r.updatedMap)
           ELSE /\ Goto(n, "chkSleep")
                /\ updatedMap' = [updatedMap EXCEPT ![n] = r.updatedMap]
                /\ blocked' = [blocked EXCEPT ![n] = r.at]
                /\ UNCHANGED <<ctx, i, retryCnt, key, val, err, latestVer,
                               op, arg, writes, lastWrite>>
    /\ UNCHANGED <<kv, globalVerCh, env>>

ChkGetOk(n) ==
    /\ pc[n] = "chkGet"
    /\ ctx[n] = Live
    /\ LET r == CheckKvs(Get(kv), 1, updatedMap[n], latestVer[n])
       IN  IF r.succ
           THEN Leave(n, Nil, writes[n], lastWrite[n], r.updatedMap)
           ELSE /\ Goto(n, "chkSleep")
                /\ updatedMap' = [updatedMap EXCEPT ![n] = r.updatedMap]
                /\ blocked' = [blocked EXCEPT ![n] = r.at]
                /\ UNCHANGED <<ctx, i, retryCnt, key, val, err, latestVer,
                               op, arg, writes, lastWrite>>
    /\ UNCHANGED <<kv, globalVerCh, env>>

\* time.Sleep(checkVersInterval)
ChkSleep(n) ==
    /\ pc[n] = "chkSleep"
    /\ Goto(n, "chkTop")
    /\ UNCHANGED <<kv, globalVerCh, ctx, i, retryCnt, key, val, err,
                   latestVer, updatedMap, counts, env>>

\* -------------------------------------------------------------- environment
ChkPcs == {"chkFirstWait", "chkTop", "chkGet", "chkSleep"}
PutPcs == {"initTxn", "retNil", "putTop", "put", "putSleep"}

\* The caller cancels the context it holds while the operation runs, or its
\* deadline passes.  RemoveSelfVersionPath takes no context and runs under
\* goctx.Background(): its steps do not read ctx.
Cancel(n, c) ==
    /\ pc[n] \in ChkPcs \cup PutPcs \cup {"delete"}
    /\ ctx[n] = Live
    /\ c \in {Canceled, DeadlineExceeded}
    /\ ctx' = [ctx EXCEPT ![n] = c]
    /\ last' = NoLast
    /\ UNCHANGED inited
    /\ UNCHANGED <<kv, globalVerCh, pc, i, retryCnt, key, val, err,
                   latestVer, updatedMap, counts, env>>

\* A value strconv.Atoi rejects.
NonNumeric == <<"a", "b", "c">>

\* Some other client of the store puts a value that is no number under the
\* key of node n's record.
Corrupt(n) ==
    /\ kv' = [kv EXCEPT ![selfSchemaVerPath(n)] = NonNumeric]
    /\ calls' = calls + 1
    /\ pristine' = FALSE
    /\ inited' = {}
    /\ last' = NoLast
    /\ UNCHANGED <<globalVerCh, locals, counts, observed, ownerVer>>

\* Some client reads GlobalVersion.
ReadGlobal ==
    /\ observed' = kv[ddlGlobalSchemaVersion]
    /\ last' = NoLast
    /\ UNCHANGED inited
    /\ UNCHANGED <<kv, globalVerCh, locals, counts, pristine, calls,
                   ownerVer>>

\* ---------------------------------------------------------- specifications
\* Successful steps of the writing operations.
WriteOkStep(n) ==
    \/ InitTxnOk(n)
    \/ PutTop(n)
    \/ PutOk(n)
    \/ DeleteOk(n)

\* Steps of putKV entered with a positive retryCnt, the store failing or not.
PutStep(n) ==
    \/ PutTop(n)
    \/ PutOk(n)
    \/ \E e \in StoreErrs \cup {Canceled, DeadlineExceeded}, a \in BOOLEAN :
           PutFail(n, e, a)
    \/ PutSleep(n)

\* The transaction of Init, failing or not.
InitStep(n) ==
    \/ InitTxnOk(n)
    \/ \E e \in {ErrUnavailable, Canceled, DeadlineExceeded}, a \in BOOLEAN :
           InitTxnFail(n, e, a)

\* An attempt of RemoveSelfVersionPath, failing or not.
DeleteStep(n) ==
    \/ DeleteOk(n)
    \/ \E e \in StoreErrs, a \in BOOLEAN : DeleteFail(n, e, a)

\* Steps of OwnerCheckAllVersions.
CheckStep(n) ==
    \/ ChkFirstWait(n)
    \/ ChkTop(n)
    \/ \E e \in {ErrUnavailable, Canceled, DeadlineExceeded} : ChkGetFail(n, e)
    \/ ChkGetOk(n)
    \/ ChkSleep(n)

\* A node advertises or withdraws its own version, while no other writing
\* operation is running.
SelfCall(n) ==
    /\ calls < MaxCalls
    /\ \A m \in Nodes : pc[m] \in {"idle"} \cup ChkPcs
    /\ \/ InitCall(n)
       \/ \E v \in Versions : UpdateSelfVersion(n, v)
       \/ RemoveSelfVersionPath(n)

\* The convergence barrier: the owner waits while the nodes write their
\* records.  A wait sees the other nodes through the store only, and every
\* writing operation changes a record in one atomic step; so here the
\* writes succeed at the first attempt and are started one at a time, which
\* leaves every order of record changes and scans possible.
Next ==
    \/ \E n \in Nodes : SelfCall(n)
    \/ \E n \in Nodes : WriteOkStep(n)
    \/ \E v \in Versions : OwnerCheckAllVersions(Owner, v)
    \/ CheckStep(Owner)
    \/ \E c \in {Canceled, DeadlineExceeded} :
           pc[Owner] \in ChkPcs /\ Cancel(Owner, c)

Spec == Init /\ [][Next]_vars

\* The barrier under fair scheduling: the owner's thread keeps running, and
\* a scan that is retried for ever succeeds at some retry.  The other nodes
\* write their records; the owner only waits, for version VerStep, which
\* the record "0" of Init does not hold, and its context is never cancelled.
FollowerCall(n) ==
    /\ n # Owner
    /\ calls < MaxFairCalls
    /\ \A m \in Nodes : pc[m] \in {"idle"} \cup ChkPcs
    /\ \/ InitCall(n)
       \/ \E v \in Versions : UpdateSelfVersion(n, v)
       \/ RemoveSelfVersionPath(n)

NextFair ==
    \/ \E n \in Nodes : FollowerCall(n)
    \/ \E n \in Nodes : WriteOkStep(n)
    \/ OwnerCheckAllVersions(Owner, VerStep)
    \/ CheckStep(Owner)

SpecFair ==
    /\ Init
    /\ [][NextFair]_vars
    /\ WF_vars(CheckStep(Owner))
    /\ SF_vars(ChkGetOk(Owner))

\* Cancellation of the wait under fair scheduling: the owner's thread keeps
\* running while the other nodes write their records.
CancelCall(n) ==
    /\ n # Owner
    /\ calls < MaxCancelCalls
    /\ \A m \in Nodes : pc[m] \in {"idle"} \cup ChkPcs
    /\ \/ InitCall(n)
       \/ \E v \in Versions : UpdateSelfVersion(n, v)
       \/ RemoveSelfVersionPath(n)

NextCancel ==
    \/ \E n \in Nodes : CancelCall(n)
    \/ \E n \in Nodes : WriteOkStep(n)
    \/ \E v \in Versions : OwnerCheckAllVersions(Owner, v)
    \/ CheckStep(Owner)
    \/ \E c \in {Canceled, DeadlineExceeded} :
           pc[Owner] \in ChkPcs /\ Cancel(Owner, c)

SpecCancelFair ==
    /\ Init
    /\ [][NextCancel]_vars
    /\ WF_vars(CheckStep(Owner))

\* The scans of a wait: the owner waits, under a context that may be
\* cancelled and with scans that may fail, while the nodes, the owner too
\* when it is not waiting, write their records one call at a time and
\* another client may spoil a record.
ScanCall(n) ==
    /\ calls < MaxScanCalls
    /\ \A m \in Nodes : pc[m] \in {"idle"} \cup ChkPcs
    /\ \/ InitCall(n)
       \/ \E v \in Versions : UpdateSelfVersion(n, v)
       \/ RemoveSelfVersionPath(n)
       \/ Corrupt(n)

NextScan ==
    \/ \E n \in Nodes : ScanCall(n)
    \/ \E n \in Nodes : WriteOkStep(n)
    \/ \E v \in Versions : OwnerCheckAllVersions(Owner, v)
    \/ CheckStep(Owner)
    \/ \E c \in {Canceled, DeadlineExceeded} :
           pc[Owner] \in ChkPcs /\ Cancel(Owner, c)

SpecScan == Init /\ [][NextScan]_vars

\* The operations of the interface one call at a time, with failing store
\* calls and cancellation.
WriteCall(n) ==
    /\ calls < MaxWriteCalls
    /\ \A m \in Nodes : pc[m] = "idle"
    /\ \/ InitCall(n)
       \/ \E v \in Versions : UpdateSelfVersion(n, v)
       \/ RemoveSelfVersionPath(n)
       \/ n = Owner /\ \E v \in OwnerVersions : OwnerUpdateGlobalVersion(n, v)
       \/ \E cnt \in 0..MaxBudget : putKV(n, cnt, VerStep)

\* The calls that write nothing are not counted.
ReadCall(n) ==
    /\ \A m \in Nodes : pc[m] = "idle"
    /\ \/ GlobalVersionCh(n)
       \/ n = Owner /\ \E v \in Versions : OwnerCheckAllVersions(n, v)

NextWrite ==
    \/ \E n \in Nodes : WriteCall(n)
    \/ \E n \in Nodes : ReadCall(n)
    \/ \E n \in Nodes : InitStep(n)
    \/ \E n \in Nodes : PutStep(n)
    \/ \E n \in Nodes : DeleteStep(n)
    \/ \E n \in Nodes : PutNone(n)
    \/ CheckStep(Owner)
    \/ \E n \in Nodes, c \in {Canceled, DeadlineExceeded} : Cancel(n, c)

SpecWrite == Init /\ [][NextWrite]_vars

\* Init on every node and the owner's global-version writes with arbitrary
\* arguments.  The owner runs concurrently with the other nodes, which take
\* turns; store calls may fail.
InitOrOwnerCall(n) ==
    /\ calls < MaxInitCalls
    /\ pc[n] = "idle"
    /\ \A m \in Nodes \ {Owner} : pc[m] = "idle"
    /\ \/ InitCall(n)
       \/ n = Owner /\ \E v \in OwnerVersions : OwnerUpdateGlobalVersion(n, v)

NextInit ==
    \/ \E n \in Nodes : InitOrOwnerCall(n)
    \/ \E n \in Nodes : InitStep(n)
    \/ \E n \in Nodes : PutStep(n)

SpecInit == Init /\ [][NextInit]_vars

\* The ConvergenceSet over several rounds: two nodes other than the owner
\* write, overwrite, remove and re-create their records while the owner
\* waits.
SetCall(n) ==
    /\ calls < MaxSetCalls
    /\ n \in {Owner + 1, Owner + 2}
    /\ \A m \in Nodes : pc[m] \in {"idle"} \cup ChkPcs
    /\ \/ InitCall(n)
       \/ \E v \in Versions : UpdateSelfVersion(n, v)
       \/ RemoveSelfVersionPath(n)

NextSet ==
    \/ \E n \in Nodes : SetCall(n)
    \/ \E n \in Nodes : WriteOkStep(n)
    \/ \E v \in Versions : OwnerCheckAllVersions(Owner, v)
    \/ CheckStep(Owner)
    \/ \E c \in {Canceled, DeadlineExceeded} :
           pc[Owner] \in ChkPcs /\ Cancel(Owner, c)

SpecSet == Init /\ [][NextSet]_vars

\* The owner publishes strictly increasing versions while nodes run Init and
\* clients read GlobalVersion; store calls may fail.  The nodes other than
\* the owner touch GlobalVersion in the same way, through the transaction of
\* Init only, so one of them stands for all.
MonoCall(n) ==
    /\ calls < MaxMonoCalls
    /\ pc[n] = "idle"
    /\ n \in {Owner, Owner + 1}
    /\ pc[Owner + 1] = "idle"
    /\ \/ InitCall(n)
       \/ /\ n = Owner
          /\ \E v \in OwnerVersions :
                 v > ownerVer /\ OwnerUpdateGlobalVersion(n, v)

NextMono ==
    \/ \E n \in Nodes : MonoCall(n)
    \/ \E n \in Nodes : InitStep(n)
    \/ \E n \in Nodes : PutStep(n)
    \/ ReadGlobal

SpecMono == Init /\ [][NextMono]_vars

\* The owner's global-version writes alone: the owner keeps taking steps, and
\* a write that is possible again and again eventually succeeds.
OwnerCall ==
    /\ calls < MaxFairCalls
    /\ \E v \in OwnerVersions : OwnerUpdateGlobalVersion(Owner, v)

NextOwner ==
    \/ OwnerCall
    \/ PutStep(Owner)
    \/ \E c \in {Canceled, DeadlineExceeded} : Cancel(Owner, c)

SpecOwnerFair ==
    /\ Init
    /\ [][NextOwner]_vars
    /\ WF_vars(PutStep(Owner))
    /\ SF_vars(PutOk(Owner))

\* ------------------------------------------------------------- vocabulary
\* n is inside OwnerCheckAllVersions
InCheck(n) == pc[n] \in ChkPcs

\* The SelfVersionRecords present in the store
Present == {k \in Keys : HasPrefix(k, ddlAllSchemaVersions) /\ kv[k] # Absent}

\* The record at key k holds version v
HoldsVer(k, v) == Atoi(kv[k]).ok /\ Atoi(kv[k]).val = v

\* This step is n returning e
Returns(n, e) == pc[n] # "idle" /\ pc'[n] = "idle" /\ last'.ret = e

\* This step is n's wait returning nil
ReturnsNil(n) == pc[n] = "chkGet" /\ Returns(n, Nil)

\* This step is a successful prefix scan of n's wait
ScanSucceeds(n) == pc[n] = "chkGet" /\ (pc'[n] = "chkSleep" \/ ReturnsNil(n))

\* The step just taken was n returning e from operation name
Returned(n, name, e) == last.node = n /\ last.op = name /\ last.ret = e

\* The step just taken was n's wait returning nil
WaitReturnedNil(n) == Returned(n, "OwnerCheckAllVersions", Nil)

\* ---------------------------------------------------------------------- C1
\* C1 as stated: a wait returns nil at a successful scan if and only if
\* every record present at that scan holds the target version.
C1_AsStated ==
    [][ScanSucceeds(Owner) =>
          (ReturnsNil(Owner) <=>
               \A k \in Present : HoldsVer(k, latestVer[Owner]))]_vars

\* C1 amended: a wait returns nil at a successful scan if and only if every
\* record present at that scan holds the target version or is already in the
\* ConvergenceSet of this call.
C1_NilIffUnconfirmedConverged ==
    [][ScanSucceeds(Owner) =>
          (ReturnsNil(Owner) <=>
               \A k \in Present :
                   k \in updatedMap[Owner] \/ HoldsVer(k, latestVer[Owner]))]_vars

\* A wait has returned nil over a record that was confirmed earlier and no
\* longer holds the target version.
C1_Witness ==
    /\ WaitReturnedNil(Owner)
    /\ last.blocked # NoKey
    /\ \E k \in last.updatedMap :
           kv[k] # Absent /\ ~HoldsVer(k, last.latestVer)

\* ---------------------------------------------------------------------- C2
\* C2: once the context is done, the step the wait takes from the top of the
\* loop or from the scan returns the context's error (so no scan follows and
\* nil is not returned), and the wait does take that step.
C2_DoneContextEndsWait ==
    /\ [][(pc[Owner] \in {"chkTop", "chkGet"} /\ ctx[Owner] # Live
              /\ pc'[Owner] # pc[Owner])
          => Returns(Owner, CtxErr(ctx[Owner]))]_vars
    /\ (InCheck(Owner) /\ ctx[Owner] # Live)
          ~> \E e \in {Canceled, DeadlineExceeded} :
                 Returned(Owner, "OwnerCheckAllVersions", e)

\* A wait that had scanned without convergence returned the context's error.
C2_Witness ==
    /\ Returned(Owner, "OwnerCheckAllVersions", DeadlineExceeded)
    /\ last.blocked # NoKey

\* ---------------------------------------------------------------------- C3
\* C3: a wait whose context stays live does not wait for ever once every
\* present record holds the target version; it leaves only by returning nil,
\* and not while a present, unconfirmed record differs from the target.
C3_BarrierLiveness ==
    /\ []<>~(InCheck(Owner) /\ ctx[Owner] = Live
                /\ \A k \in Present : HoldsVer(k, latestVer[Owner]))
    /\ [][(InCheck(Owner) /\ ctx[Owner] = Live /\ pc'[Owner] = "idle")
          => /\ Returns(Owner, Nil)
             /\ \A k \in Present \ updatedMap[Owner] :
                    HoldsVer(k, latestVer[Owner])]_vars

\* A wait was blocked on a record, that record now holds the target version
\* and the wait has returned nil.
C3_Witness ==
    /\ WaitReturnedNil(Owner)
    /\ last.blocked # NoKey
    /\ last.blocked \in last.updatedMap
    /\ HoldsVer(last.blocked, last.latestVer)

\* ---------------------------------------------------------------------- C4
\* C4: a successful scan at which every node's record is absent or holds the
\* target version returns nil, whatever the wait saw before.
C4_AbsentNotRequired ==
    [][(ScanSucceeds(Owner)
          /\ \A n \in Nodes :
                 \/ kv[selfSchemaVerPath(n)] = Absent
                 \/ HoldsVer(selfSchemaVerPath(n), latestVer[Owner]))
       => ReturnsNil(Owner)]_vars

\* A wait was blocked on a record that it never confirmed; the record is
\* gone and the wait has returned nil.
C4_Witness ==
    /\ WaitReturnedNil(Owner)
    /\ last.blocked # NoKey
    /\ last.blocked \notin last.updatedMap
    /\ kv[last.blocked] = Absent



\* The number stored under GlobalVersion; -1 while the key is absent.
GlobalNum(value) == IF value = Absent THEN -1 ELSE Atoi(value).val

\* The operations that write through putKV alone.
PutOps == {"putKV", "UpdateSelfVersion", "OwnerUpdateGlobalVersion"}

\* C5: Init is idempotent.  The transaction of an Init that finds
\* GlobalVersion present leaves it as it is, also when the owner's writes are
\* interleaved.  While Init is the only operation ever called on a store that
\* started empty, GlobalVersion is absent or "0", every node whose Init has
\* returned nil has the record "0", and when every call made so far has
\* completed on a node of its own, as after two calls on two nodes, exactly
\* the records of those nodes exist.
C5_InitIdempotent ==
    /\ [][\A n \in Nodes :
            (pc[n] = "initTxn" /\ pc'[n] # "initTxn"
                /\ kv[ddlGlobalSchemaVersion] # Absent)
            => kv'[ddlGlobalSchemaVersion] = kv[ddlGlobalSchemaVersion]]_vars
    /\ [](pristine =>
            /\ kv[ddlGlobalSchemaVersion] \in {Absent, initialVersion}
            /\ inited # {} => kv[ddlGlobalSchemaVersion] = initialVersion
            /\ \A n \in inited : kv[selfSchemaVerPath(n)] = initialVersion
            /\ calls = Cardinality(inited)
                  => Present = {selfSchemaVerPath(n) : n \in inited})

\* Two nodes have completed Init on the empty store, nothing else was called.
C5_Witness ==
    /\ pristine
    /\ calls = Cardinality(inited)
    /\ calls = 2
    /\ \E n \in Nodes \ {Owner} :
           Returned(n, "Init", Nil) /\ last.writes = keyOpDefaultRetryCnt

\* C6: when the owner passes strictly increasing versions, the value a
\* client reads from GlobalVersion is never below the value read before,
\* however Init and failing writes are interleaved.
C6_MonotonicReads ==
    [][GlobalNum(observed') >= GlobalNum(observed)]_vars

\* A client read VerStep and the owner has since published a larger version.
C6_Witness ==
    /\ observed = FormatInt(VerStep)
    /\ GlobalNum(kv[ddlGlobalSchemaVersion]) > VerStep
    /\ \E n \in Nodes \ {Owner} : pc[n] = "putSleep"

\* C7 as stated: the stored GlobalVersion never decreases, whatever version
\* arguments are passed.
C7_AsStated ==
    [][GlobalNum(kv'[ddlGlobalSchemaVersion])
           >= GlobalNum(kv[ddlGlobalSchemaVersion])]_vars

\* C7: Init never lowers the stored GlobalVersion, and neither does an
\* OwnerUpdateGlobalVersion whose argument is non-negative and at least as
\* large as every argument passed before.
C7_NeverLoweredByLargestArgument ==
    [][(op[Owner] = "OwnerUpdateGlobalVersion"
            => arg[Owner] >= 0 /\ arg[Owner] = ownerVer)
        => GlobalNum(kv'[ddlGlobalSchemaVersion])
               >= GlobalNum(kv[ddlGlobalSchemaVersion])]_vars

\* The owner has raised GlobalVersion from VerStep to a larger version after
\* a failed attempt, while another node is in Init.
C7_Witness ==
    /\ Returned(Owner, "OwnerUpdateGlobalVersion", Nil)
    /\ last.arg > VerStep
    /\ last.arg = ownerVer
    /\ last.writes > 1
    /\ kv[ddlGlobalSchemaVersion] = FormatInt(last.arg)
    /\ \E n \in Nodes \ {Owner} : op[n] = "Init"

\* C8: a putKV with budget N >= 1 never issues more than N writes and none
\* after a success.  It returns nil exactly when a write succeeded, after as
\* many writes as attempts failed before plus one.  Under a context that is
\* never done it returns an error only after N failed writes, and the error
\* is that of the N-th.
C8_AttemptCount ==
    /\ [](\A n \in Nodes :
            op[n] \in PutOps =>
                writes[n] <= retryCnt[n] /\ lastWrite[n] # Nil)
    /\ [][\A n \in Nodes, e \in {Nil, Canceled, DeadlineExceeded,
                                 ErrUnavailable} :
            (Returns(n, e) /\ op[n] \in PutOps /\ retryCnt[n] >= 1)
            => /\ e = Nil => /\ last'.lastWrite = Nil
                             /\ last'.writes = i[n] + 1
                             /\ kv'[key[n]] = val[n]
               /\ (e # Nil /\ ctx[n] = Live)
                     => /\ last'.writes = retryCnt[n]
                        /\ i[n] + 1 = retryCnt[n]
                        /\ e = last'.lastWrite]_vars

\* A putKV with the largest budget returned nil from its last attempt.
C8_Witness ==
    \E n \in Nodes :
        /\ Returned(n, "putKV", Nil)
        /\ last.writes = MaxBudget
        /\ last.writes > 1

\* C9: OwnerUpdateGlobalVersion returns an error only when its context is
\* done, and then the context's error; it returns nil only with GlobalVersion
\* set to its argument.  No number of failed writes makes it return, and when
\* the store eventually accepts a write the call ends with nil or with the
\* context's error.
C9_RetriesUntilSuccessOrDone ==
    /\ [][\A e \in {Nil, Canceled, DeadlineExceeded, ErrUnavailable} :
            (Returns(Owner, e) /\ op[Owner] = "OwnerUpdateGlobalVersion")
            => \/ /\ e = Nil
                  /\ Atoi(kv'[ddlGlobalSchemaVersion])
                         = [ok |-> TRUE, val |-> arg[Owner]]
               \/ /\ e # Nil
                  /\ ctx[Owner] # Live
                  /\ e = CtxErr(ctx[Owner])]_vars
    /\ (op[Owner] = "OwnerUpdateGlobalVersion")
           ~> \E e \in {Nil, Canceled, DeadlineExceeded} :
                  Returned(Owner, "OwnerUpdateGlobalVersion", e)

\* The call returned nil after more than keyOpDefaultRetryCnt failed writes.
C9_Witness ==
    /\ Returned(Owner, "OwnerUpdateGlobalVersion", Nil)
    /\ last.writes > keyOpDefaultRetryCnt + 1

\* C10: UpdateSelfVersion issues at most one write.  When it returns nil the
\* node's record is the decimal text of the version; when the write fails it
\* returns that error after the one write; when the context is done before
\* the write it writes nothing and returns the context's error.
C10_AtMostOneWrite ==
    /\ [](\A n \in Nodes : op[n] = "UpdateSelfVersion" => writes[n] <= 1)
    /\ [][\A n \in Nodes, e \in {Nil, Canceled, DeadlineExceeded,
                                 ErrUnavailable} :
            (Returns(n, e) /\ op[n] = "UpdateSelfVersion")
            => /\ e = Nil
                    => /\ last'.writes = 1
                       /\ Atoi(kv'[selfSchemaVerPath(n)])
                              = [ok |-> TRUE, val |-> arg[n]]
               /\ (e # Nil /\ last'.writes = 1) => e = last'.lastWrite
               /\ (e # Nil /\ last'.writes = 0)
                    => ctx[n] # Live /\ e = CtxErr(ctx[n])
               /\ (pc[n] = "putTop" /\ ctx[n] # Live)
                    => last'.writes = 0 /\ e = CtxErr(ctx[n])]_vars

\* The one write of an UpdateSelfVersion failed and the call returned its
\* error.
C10_Witness ==
    \E n \in Nodes :
        /\ Returned(n, "UpdateSelfVersion", ErrUnavailable)
        /\ last.writes = 1
        /\ last.lastWrite = ErrUnavailable

\* The positions at which a time.Sleep is pending.
SleepPcs == {"chkFirstWait", "chkSleep", "putSleep"}

\* This step is a step of node n's running operation.
Acts(n) ==
    \/ pc'[n] # pc[n]
    \/ i'[n] # i[n]
    \/ writes'[n] # writes[n]

\* C11: RemoveSelfVersionPath issues at most keyOpDefaultRetryCnt deletes of
\* the node's own key.  It returns nil at the first delete that succeeds,
\* with the record absent, and the error of the last delete once
\* keyOpDefaultRetryCnt of them have failed; no cancellation of a context of
\* the caller changes that.
C11_RemoveAttempts ==
    /\ [](\A n \in Nodes :
            op[n] = "RemoveSelfVersionPath"
                => /\ writes[n] < keyOpDefaultRetryCnt
                   /\ writes[n] = i[n]
                   /\ lastWrite[n] # Nil)
    /\ [][\A n \in Nodes, e \in {Nil, Canceled, DeadlineExceeded,
                                 ErrUnavailable} :
            (Returns(n, e) /\ op[n] = "RemoveSelfVersionPath")
            => /\ e = Nil => /\ last'.lastWrite = Nil
                             /\ last'.writes = i[n] + 1
                             /\ kv'[selfSchemaVerPath(n)] = Absent
               /\ e # Nil => /\ last'.writes = keyOpDefaultRetryCnt
                             /\ e = last'.lastWrite
                             /\ e \in StoreErrs]_vars
    /\ [][\A n \in Nodes :
            (op[n] = "RemoveSelfVersionPath" /\ Acts(n))
            => \A k \in Keys :
                   kv'[k] # kv[k]
                       => k = selfSchemaVerPath(n) /\ kv'[k] = Absent]_vars

\* A removal returned nil from its last attempt although the caller's
\* context had been cancelled meanwhile.
C11_Witness ==
    \E n \in Nodes :
        /\ Returned(n, "RemoveSelfVersionPath", Nil)
        /\ last.writes = keyOpDefaultRetryCnt
        /\ last.ctx = Canceled
        /\ kv[selfSchemaVerPath(n)] = Absent

\* C18 as stated: after a failed delete that is not the last attempt,
\* RemoveSelfVersionPath is at a pending delay before it issues the next
\* delete.
C18_DelayBetweenDeletes ==
    [][\A n \in Nodes :
         (op[n] = "RemoveSelfVersionPath" /\ writes'[n] = writes[n] + 1)
         => pc'[n] \in SleepPcs]_vars

\* The keys a step of node n's operation o may change, and how.
MayWrite(n, o, k) ==
    \/ /\ o \in {"Init", "UpdateSelfVersion", "RemoveSelfVersionPath"}
       /\ k = selfSchemaVerPath(n)
       /\ o = "Init" => kv'[k] = initialVersion
       /\ o = "RemoveSelfVersionPath" => kv'[k] = Absent
    \/ /\ o = "Init"
       /\ k = ddlGlobalSchemaVersion
       /\ kv[k] = Absent
       /\ kv'[k] = initialVersion
    \/ o = "OwnerUpdateGlobalVersion" /\ k = ddlGlobalSchemaVersion
    \/ o = "putKV" /\ k = key[n]

\* C13: the store changes only in a step of some node's operation, and such
\* a step changes no record of another node: Init and UpdateSelfVersion
\* write the node's own record (Init also creates an absent GlobalVersion),
\* RemoveSelfVersionPath deletes the node's own record,
\* OwnerUpdateGlobalVersion writes GlobalVersion, and OwnerCheckAllVersions
\* and GlobalVersionCh change no key.
C13_WriteOwnership ==
    [][/\ kv' # kv => \E n \in Nodes : Acts(n)
       /\ \A n \in Nodes :
            Acts(n) => \A k \in Keys :
                           kv'[k] # kv[k] => MayWrite(n, op[n], k)
       /\ last'.op = "GlobalVersionCh" => kv' = kv]_vars

\* A node has removed its record and the record of another node is still
\* there.
C13_Witness ==
    \E n \in Nodes :
        /\ Returned(n, "RemoveSelfVersionPath", Nil)
        /\ kv[selfSchemaVerPath(n)] = Absent
        /\ \E m \in Nodes \ {n} : kv[selfSchemaVerPath(m)] # Absent

\* C14: when the context is done at the start of an attempt of putKV, the
\* step taken there returns the context's error: no store write and no sleep
\* follow, whatever is left of the retry budget.
C14_CancellationIsFatal ==
    [][\A n \in Nodes :
         (pc[n] = "putTop" /\ ctx[n] # Live /\ Acts(n))
         => /\ Returns(n, CtxErr(ctx[n]))
            /\ kv' = kv
            /\ last'.writes = writes[n]]_vars

\* Init was cancelled after the first failed write of its record and
\* returned the context's error with two attempts left.
C14_Witness ==
    \E n \in Nodes :
        /\ Returned(n, "Init", Canceled)
        /\ last.writes = 1
        /\ last.lastWrite = ErrUnavailable

\* C17: an Init whose transaction fails returns that error without opening
\* the watch and without a write of the node's record.  After the
\* transaction, under a live context, Init returns an error only after
\* keyOpDefaultRetryCnt failed writes of the record, and the error is that
\* of the last.  Init returns nil only from a write that succeeded, with the
\* node's record "0".
C17_InitFailurePaths ==
    /\ [](\A n \in Nodes : pc[n] = "initTxn" => writes[n] = 0)
    /\ [][\A n \in Nodes, e \in {Nil, Canceled, DeadlineExceeded,
                                 ErrUnavailable} :
            (Returns(n, e) /\ op[n] = "Init")
            => /\ pc[n] = "initTxn"
                    => /\ e # Nil
                       /\ globalVerCh' = globalVerCh
                       /\ kv'[selfSchemaVerPath(n)] = kv[selfSchemaVerPath(n)]
                       /\ last'.writes = 0
               /\ (pc[n] # "initTxn" /\ e # Nil /\ ctx[n] = Live)
                    => /\ globalVerCh[n]
                       /\ last'.writes = keyOpDefaultRetryCnt
                       /\ e = last'.lastWrite
               /\ e = Nil
                    => /\ globalVerCh[n]
                       /\ last'.lastWrite = Nil
                       /\ kv'[selfSchemaVerPath(n)] = initialVersion]_vars

\* The transaction of an Init succeeded and every write of the record failed.
C17_Witness ==
    \E n \in Nodes :
        /\ Returned(n, "Init", ErrUnavailable)
        /\ last.writes = keyOpDefaultRetryCnt
        /\ globalVerCh[n]
        /\ kv[ddlGlobalSchemaVersion] = initialVersion
        /\ kv[selfSchemaVerPath(n)] = Absent

\* The node whose record has key k.
KeyNode(k) == CHOOSE n \in Nodes : selfSchemaVerPath(n) = k

\* Key k1 comes before key k2 in a scan.
Before(k1, k2) == KeyNode(k1) < KeyNode(k2)

\* The present records the wait of n has not confirmed and whose value is no
\* number.
Unparsable(n) == {k \in Present \ updatedMap[n] : ~Atoi(kv[k]).ok}

\* C12: a successful scan that holds an unconfirmed record whose value is no
\* number does not return: the wait goes to the polling sleep, blocked at an
\* unconfirmed record not after the first such record, and confirms no
\* record after it.  The wait returns no error but that of its context.
C12_UnparsableBlocks ==
    /\ [][(ScanSucceeds(Owner) /\ Unparsable(Owner) # {})
          => /\ pc'[Owner] = "chkSleep"
             /\ blocked'[Owner] \in Present \ updatedMap[Owner]
             /\ \A b \in Unparsable(Owner) :
                    /\ ~Before(b, blocked'[Owner])
                    /\ b \notin updatedMap'[Owner]
                    /\ \A k \in updatedMap'[Owner] \ updatedMap[Owner] :
                           Before(k, b)]_vars
    /\ [][\A e \in {Canceled, DeadlineExceeded, ErrUnavailable} :
            (InCheck(Owner) /\ Returns(Owner, e))
            => ctx[Owner] # Live /\ e = CtxErr(ctx[Owner])]_vars

\* The round of a wait stopped at a record that is no number, and a later
\* record that holds the target version was not examined.
C12_Witness ==
    /\ pc[Owner] = "chkSleep"
    /\ blocked[Owner] # NoKey
    /\ kv[blocked[Owner]] = NonNumeric
    /\ \E k \in Present \ updatedMap[Owner] :
           Before(blocked[Owner], k) /\ HoldsVer(k, latestVer[Owner])

\* C15: the step a wait takes from its scan returns, goes to the top of the
\* loop, or goes to the polling sleep.  Under a done context the scan fails
\* and the step returns the context's error; no other error is ever
\* returned.  The step to the top of the loop, taken after any other scan
\* error, changes neither the ConvergenceSet nor the store; the polling
\* sleep follows only a scan that succeeded and found an unconfirmed record
\* that does not hold the target version.
C15_ScanErrorPolicy ==
    /\ [][(pc[Owner] = "chkGet" /\ pc'[Owner] # "chkGet")
           => /\ pc'[Owner] \in {"idle", "chkTop", "chkSleep"}
              /\ ctx[Owner] # Live => Returns(Owner, CtxErr(ctx[Owner]))
              /\ \A e \in {Canceled, DeadlineExceeded, ErrUnavailable} :
                     Returns(Owner, e) => ctx[Owner] # Live /\ isContextFinished(e)
              /\ pc'[Owner] = "chkTop"
                     => /\ updatedMap'[Owner] = updatedMap[Owner]
                        /\ blocked'[Owner] = blocked[Owner]
                        /\ ctx[Owner] = Live
                        /\ kv' = kv
              /\ pc'[Owner] = "chkSleep"
                     => \E k \in Present \ updatedMap[Owner] :
                            ~HoldsVer(k, latestVer[Owner])]_vars
    /\ [][(pc[Owner] = "chkTop" /\ pc'[Owner] # "chkTop")
            => IF ctx[Owner] = Live
               THEN pc'[Owner] = "chkGet"
               ELSE Returns(Owner, CtxErr(ctx[Owner]))]_vars

\* A wait that has confirmed a record and was blocked at another is at its
\* scan under a context whose deadline has passed: the scan fails with the
\* context's error.
C15_Witness ==
    /\ pc[Owner] = "chkGet"
    /\ ctx[Owner] = DeadlineExceeded
    /\ updatedMap[Owner] # {}
    /\ blocked[Owner] # NoKey

\* C20: a successful scan of a store that holds no SelfVersionRecord makes
\* the wait return nil, whatever its target version, and confirms no record.
C20_VacuousConvergence ==
    [][(ScanSucceeds(Owner) /\ Present = {})
        => /\ ReturnsNil(Owner)
           /\ last'.latestVer = latestVer[Owner]
           /\ last'.updatedMap = updatedMap[Owner]]_vars

\* A wait for a version no node ever reported was blocked at a record, the
\* record was removed, and the wait returned nil with nothing confirmed.
C20_Witness ==
    /\ WaitReturnedNil(Owner)
    /\ last.latestVer = VerStep
    /\ last.blocked # NoKey
    /\ last.updatedMap = {}
    /\ Present = {}

\* The record of the owner is present, not confirmed by its wait, and does
\* not hold the target version of the wait.
OwnStale ==
    LET k == selfSchemaVerPath(Owner)
    IN  k \in Present \ updatedMap[Owner] /\ ~HoldsVer(k, latestVer[Owner])

\* C19: the scan of a wait covers the record of the owner.  A successful scan
\* that finds the owner's record present, unconfirmed and different from the
\* target version does not return: the wait goes to the polling sleep with
\* the owner's record unconfirmed, so while the record stays so the wait
\* returns nothing but the error of its context.
C19_OwnRecordCounts ==
    /\ [][(ScanSucceeds(Owner) /\ OwnStale)
           => /\ pc'[Owner] = "chkSleep"
              /\ selfSchemaVerPath(Owner) \notin updatedMap'[Owner]
              /\ blocked'[Owner] \in Present \ updatedMap[Owner]]_vars
    /\ [][(InCheck(Owner) /\ OwnStale /\ pc'[Owner] = "idle")
           => /\ ctx[Owner] # Live
              /\ Returns(Owner, CtxErr(ctx[Owner]))]_vars
    /\ [][(ScanSucceeds(Owner) /\ selfSchemaVerPath(Owner) \in Present
               /\ HoldsVer(selfSchemaVerPath(Owner), latestVer[Owner]))
           => selfSchemaVerPath(Owner) \in
                  (IF ReturnsNil(Owner) THEN last'.updatedMap
                                        ELSE updatedMap'[Owner])
              \/ \E k \in Present \ updatedMap[Owner] :
                     Before(k, selfSchemaVerPath(Owner))]_vars

\* Every other present record holds the target version, the owner's own
\* record does not, and the wait has ended with the deadline of its context
\* still blocked at the owner's record.
C19_Witness ==
    /\ Returned(Owner, "OwnerCheckAllVersions", DeadlineExceeded)
    /\ last.blocked = selfSchemaVerPath(Owner)
    /\ selfSchemaVerPath(Owner) \in Present
    /\ ~HoldsVer(selfSchemaVerPath(Owner), last.latestVer)
    /\ \E k \in Present : k # selfSchemaVerPath(Owner)
    /\ \A k \in Present \ {selfSchemaVerPath(Owner)} : HoldsVer(k, last.latestVer)

\* The ConvergenceSet of n's wait after this step: the set the wait returns
\* with, or the set it goes on with.
UpdatedMapAfter(n) ==
    IF pc'[n] = "idle" THEN last'.updatedMap ELSE updatedMap'[n]

\* C16: the ConvergenceSet of a wait is empty when the call starts and until
\* its first scan; while the call runs it only grows; a key enters it only
\* at a successful scan of this call that returned the key with the target
\* version; a member is not compared again, so the record a round is blocked
\* at is never a member, and a scan whose unconfirmed records all hold the
\* target version returns nil whatever the members' records hold now; after
\* the return the set is empty again.
C16_ConvergenceSet ==
    /\ [](pc[Owner] \in {"idle", "chkFirstWait"} => updatedMap[Owner] = {})
    /\ [][pc[Owner] = "chkFirstWait" => updatedMap'[Owner] = {}]_vars
    /\ [][InCheck(Owner) => updatedMap[Owner] \subseteq UpdatedMapAfter(Owner)]_vars
    /\ [][InCheck(Owner)
           => \A k \in UpdatedMapAfter(Owner) \ updatedMap[Owner] :
                  /\ ScanSucceeds(Owner)
                  /\ k \in Present
                  /\ HoldsVer(k, latestVer[Owner])
                  /\ kv'[k] = kv[k]]_vars
    /\ [][ScanSucceeds(Owner)
           => /\ pc'[Owner] = "chkSleep"
                  => /\ blocked'[Owner] \in Present \ updatedMap[Owner]
                     /\ blocked'[Owner] \notin updatedMap'[Owner]
              /\ (\A k \in Present \ updatedMap[Owner] :
                      HoldsVer(k, latestVer[Owner]))
                  => ReturnsNil(Owner)]_vars

\* A wait was blocked at a record and confirmed it in a later round; in that
\* round a record it had confirmed before held another version, and the wait
\* returned nil.
C16_Witness ==
    /\ WaitReturnedNil(Owner)
    /\ last.blocked \in last.updatedMap
    /\ \E k \in last.updatedMap :
           /\ k \in Present
           /\ Before(k, last.blocked)
           /\ ~HoldsVer(k, last.latestVer)

====
